---- MODULE Spec2Model ----
(***************************************************************************)
(* fluxit: the manifest generation pipeline of src/fluxit.                 *)
(*                                                                         *)
(* main (cli.py) checks the template path, renders every template          *)
(* (fluxit.render_templates), and for each rendered entry canonicalizes    *)
(* it (fluxit.validate_and_format_yaml) and hands it to                    *)
(* output.confirm_and_save, which compares it with the file on disk,       *)
(* asks the operator when the confirmation policy requires it, and writes  *)
(* the file (fluxit.write_template).                                       *)
(*                                                                         *)
(* Text is a sequence of tokens (a line, a newline, a blank), a file name  *)
(* is the sequence of its dot-separated segments ("a.yaml.j2" is           *)
(* <<"a","yaml","j2">>, ".j2" is <<"","j2">>), a path is a directory (a    *)
(* sequence of components) and a name.  Jinja2 and ruamel.yaml are         *)
(* libraries outside the repository: a template carries the variables it   *)
(* references and the text it expands to, and load_all/dump_all are        *)
(* modelled on the small token language below.                             *)
(***************************************************************************)
EXTENDS Naturals, Sequences, FiniteSets, TLC

VARIABLES
    templatePathOk, \* cli.py:191  template_full_path exists and is a directory
    tree,           \* the template directory: the walk of rglob, entry by entry
    confirm,        \* the --confirm policy
    fs,             \* the files below the output root: path -> NoFile or a file
    dirs,           \* the directories that exist below the k8s app dir
    pc,             \* where main is
    rendered,       \* render_templates' result, in insertion order
    idx,            \* the entry of rendered the loop of main is at
    cur,            \* confirm_and_save's locals for the current path
    log,            \* everything reported so far, in order
    exitCode        \* the process's exit status once it has ended

vars == <<templatePathOk, tree, confirm, fs, dirs, pc, rendered, idx, cur, log, exitCode>>

(***************************************************************************)
(* Bounds                                                                  *)
(***************************************************************************)
\* the most entries the template directory holds
MaxTemplates == 2

(***************************************************************************)
(* Text                                                                    *)
(***************************************************************************)
IsWs(tok) == tok \in {" ", "\n"}

RECURSIVE LStrip(_)
LStrip(t) == IF t # <<>> /\ IsWs(Head(t)) THEN LStrip(Tail(t)) ELSE t

RECURSIVE RStrip(_)
RStrip(t) == IF t # <<>> /\ IsWs(t[Len(t)]) THEN RStrip(SubSeq(t, 1, Len(t) - 1)) ELSE t

\* str.strip()
Strip(t) == RStrip(LStrip(t))

SKIP == <<"__SKIP__">>

(***************************************************************************)
(* Paths                                                                   *)
(***************************************************************************)
\* rglob("*.j2"): the name ends in ".j2"
MatchesJ2(name) == Len(name) >= 2 /\ name[Len(name)] = "j2"

\* PurePath.suffix: the text from the last dot on, unless that dot is the
\* name's first character or its last one
HasSuffix(name) ==
    /\ Len(name) >= 2
    /\ name[Len(name)] # ""
    /\ ~(Len(name) = 2 /\ name[1] = "")

\* PurePath.with_suffix("")
WithSuffixEmpty(name) ==
    IF HasSuffix(name) THEN SubSeq(name, 1, Len(name) - 1) ELSE name

\* the output root k8s_app_dir / ns / app_name, relative to k8s_app_dir
output_base_dir == <<"ns", "app">>

\* cli.py:224-225
output_file_path(rel) ==
    [dir |-> output_base_dir \o rel.dir, name |-> WithSuffixEmpty(rel.name)]

NoPath == [dir |-> <<>>, name |-> <<>>]

Ancestors(d) == { SubSeq(d, 1, n) : n \in 0..Len(d) }

(***************************************************************************)
(* The template directory                                                  *)
(***************************************************************************)
\* the keys of template_context
ContextKeys ==
    {"app_name", "namespace", "ingress_type", "ingress_host", "image_repo",
     "image_tag", "deployment_strategy", "replicas", "include_cm",
     "include_secret", "service_port"}

\* what a template file can hold: the variables it references, whether
\* Jinja2 can compile it, and the text it expands to
Sources ==
    { [refs |-> {"app_name"},            broken |-> FALSE, out |-> <<"k: v", "\n">>],
      [refs |-> {"app_name"},            broken |-> FALSE, out |-> <<" ", "k:  v", "\n">>],
      [refs |-> {"app_name", "app_nam"}, broken |-> FALSE, out |-> <<"k: v", "\n">>],
      [refs |-> {},                      broken |-> TRUE,  out |-> <<>>],
      [refs |-> {"include_cm"},          broken |-> FALSE, out |-> SKIP],
      [refs |-> {"include_cm"},          broken |-> FALSE, out |-> <<"\n", "__SKIP__", " ", "\n">>],
      [refs |-> {},                      broken |-> FALSE, out |-> <<"# c", "\n">>],
      [refs |-> {},                      broken |-> FALSE, out |-> <<"---", "\n">>],
      [refs |-> {},                      broken |-> FALSE, out |-> <<"{}", "\n">>],
      [refs |-> {"app_name"},            broken |-> FALSE, out |-> <<"k: v", ": [", "\n">>] }

NoSource == [refs |-> {}, broken |-> FALSE, out |-> <<>>]

\* the entries a template directory can hold, in the order the walk meets them
Walk ==
    << [dir |-> <<>>,      name |-> <<"a", "yaml", "j2">>, isFile |-> TRUE],
       [dir |-> <<>>,      name |-> <<"d", "j2">>,         isFile |-> FALSE],
       [dir |-> <<"sub">>, name |-> <<"b", "j2">>,         isFile |-> TRUE],
       [dir |-> <<>>,      name |-> <<"", "j2">>,          isFile |-> TRUE],
       [dir |-> <<>>,      name |-> <<"readme", "md">>,    isFile |-> TRUE] >>

RelPath(e) == [dir |-> e.dir, name |-> e.name]

IsTemplate(e) == e.isFile /\ MatchesJ2(e.name)

\* every path a run can be concerned with
OutPaths == { output_file_path(RelPath(Walk[i])) : i \in 1..Len(Walk) }


(***************************************************************************)
(* Rendering (fluxit.py render_templates)                                  *)
(***************************************************************************)
RenderOk(acc)       == [exit |-> FALSE, result |-> acc, why |-> "none", at |-> NoPath]
RenderExit(why, at) == [exit |-> TRUE, result |-> <<>>, why |-> why, at |-> at]

RECURSIVE render_loop_SkipsFailed(_, _)
\* a bug: a template that fails to render is logged and left out, and the
\* loop goes on
render_loop_SkipsFailed(entries, acc) ==
    IF entries = <<>> THEN RenderOk(acc)
    ELSE LET e   == Head(entries).entry
             src == Head(entries).src
         IN  IF ~(MatchesJ2(e.name) /\ e.isFile)
                 THEN render_loop_SkipsFailed(Tail(entries), acc)
             ELSE IF src.broken \/ ~(src.refs \subseteq ContextKeys)
                 THEN render_loop_SkipsFailed(Tail(entries), acc)
             ELSE IF Strip(src.out) = SKIP
                 THEN render_loop_SkipsFailed(Tail(entries), acc)
             ELSE render_loop_SkipsFailed(Tail(entries),
                              Append(acc, [key |-> RelPath(e), content |-> src.out]))

\* the loop of render_templates over the walk: the result so far is acc;
\* exit(1) drops it
RECURSIVE render_loop(_, _)
render_loop(entries, acc) ==
    IF entries = <<>> THEN RenderOk(acc)
    ELSE LET e   == Head(entries).entry
             src == Head(entries).src
         IN  IF ~(MatchesJ2(e.name) /\ e.isFile)
                 THEN render_loop(Tail(entries), acc)
             ELSE IF src.broken
                 THEN RenderExit("render_failed", RelPath(e))
             ELSE IF ~(src.refs \subseteq ContextKeys)
                 THEN RenderExit("undefined_var", RelPath(e))
             ELSE IF Strip(src.out) = SKIP
                 THEN render_loop(Tail(entries), acc)
             ELSE render_loop(Tail(entries),
                              Append(acc, [key |-> RelPath(e), content |-> src.out]))

render_templates(t) == render_loop(t, <<>>)

(***************************************************************************)
(* Canonicalization (fluxit.py validate_and_format_yaml)                   *)
(***************************************************************************)
\* the tokens that carry data; blanks, newlines and comments carry none
IsData(tok) == ~IsWs(tok) /\ tok # "# c"

RECURSIVE Segments(_)
\* the runs of tokens between document separators
Segments(t) ==
    IF t = <<>> THEN << <<>> >>
    ELSE LET rest == Segments(Tail(t))
         IN  IF Head(t) = "---" THEN << <<>> >> \o rest
             ELSE << <<Head(t)>> \o Head(rest) >> \o Tail(rest)

\* the document a single data token stands for
DocOf(tok) ==
    CASE tok = "k: v"     -> "map_v"
      [] tok = "k:  v"    -> "map_v"
      [] tok = "k: w"     -> "map_w"
      [] tok = "{}"       -> "empty_map"
      [] tok = "null"     -> "None"
      [] OTHER            -> "str"

\* YAML.load_all: raises on a malformed token or on two values in one
\* document; a document with no data is None; an empty stream has no
\* document; a separator before the first document starts it
load_all(t) ==
    LET data == SelectSeq(t, IsData)
        segs == Segments(data)
        docs == IF Len(segs) = 1 /\ segs[1] = <<>> THEN <<>>
                ELSE IF Len(segs) > 1 /\ segs[1] = <<>> THEN Tail(segs)
                ELSE segs
    IN  IF \/ \E i \in 1..Len(t) : t[i] \in {": [", "\\xff"}
           \/ \E i \in 1..Len(docs) : Len(docs[i]) > 1
        THEN [raised |-> TRUE, docs |-> <<>>]
        ELSE [raised |-> FALSE,
              docs |-> [i \in 1..Len(docs) |->
                          IF docs[i] = <<>> THEN "None" ELSE DocOf(docs[i][1])]]

TextOf(doc) ==
    CASE doc = "map_v"     -> <<"k: v", "\n">>
      [] doc = "map_w"     -> <<"k: w", "\n">>
      [] doc = "empty_map" -> <<"{}", "\n">>
      [] doc = "None"      -> <<"null", "\n">>
      [] OTHER             -> <<"__SKIP__", "\n">>

RECURSIVE dump_all(_)
\* YAML.dump_all with the fixed indentation: one layout per document
dump_all(docs) ==
    IF docs = <<>> THEN <<>>
    ELSE IF Len(docs) = 1 THEN TextOf(docs[1])
    ELSE TextOf(Head(docs)) \o <<"---", "\n">> \o dump_all(Tail(docs))

\* bool(doc) of Python
Truthy(doc) == doc \notin {"None", "empty_map"}

\* a bug: the test for documents without data is missing
validate_and_format_yaml_NoEmptyTest(content) ==
    LET r == load_all(content)
    IN  IF r.raised
            THEN [parsed_none |-> TRUE, parsed |-> <<>>, text |-> content]
        ELSE [parsed_none |-> FALSE, parsed |-> r.docs, text |-> dump_all(r.docs)]

\* fluxit.py:129-163: (parsed_data, formatted_content) or (None, content)
validate_and_format_yaml(content) ==
    LET r == load_all(content)
    IN  IF r.raised
            THEN [parsed_none |-> TRUE, parsed |-> <<>>, text |-> content]
        ELSE IF ~(\E i \in 1..Len(r.docs) : r.docs[i] # "None" /\ Truthy(r.docs[i]))
            THEN [parsed_none |-> TRUE, parsed |-> <<>>, text |-> content]
        ELSE [parsed_none |-> FALSE, parsed |-> r.docs, text |-> dump_all(r.docs)]

\* cli.py:229  not is_valid
NotValid(v) == v.parsed_none \/ v.parsed = <<>>

(***************************************************************************)
(* Files                                                                   *)
(***************************************************************************)
NoFile == [exists |-> FALSE, content |-> <<>>, mode |-> "rw"]

File(c, m) == [exists |-> TRUE, content |-> c, mode |-> m]

\* the files a run can find at an output path: the canonical text of the
\* templates, another manifest, an empty file, a file the process may not
\* read, and a file that is not text
FileStates ==
    { NoFile,
      File(<<"k: v", "\n">>, "rw"),
      File(<<"k: w", "\n">>, "rw"),
      File(<<>>, "rw"),
      File(<<"k: v", "\n">>, "wo"),
      File(<<"\\xff">>, "rw") }

\* fluxit.py:181-199 read_file_content: None when the file is missing or
\* open/read fails with IOError; a decoding error is not an IOError
read_file_content(f) ==
    IF ~f.exists THEN [raised |-> FALSE, none |-> TRUE, text |-> <<>>]
    ELSE IF f.mode = "wo" THEN [raised |-> FALSE, none |-> TRUE, text |-> <<>>]
    ELSE IF \E i \in 1..Len(f.content) : f.content[i] = "\\xff"
        THEN [raised |-> TRUE, none |-> TRUE, text |-> <<>>]
    ELSE [raised |-> FALSE, none |-> FALSE, text |-> f.content]

(***************************************************************************)
(* The initial state: a template directory, a policy, an output tree       *)
(***************************************************************************)
RECURSIVE Pick(_, _)
\* the entries of Walk at the positions in I, in walk order
Pick(I, k) ==
    IF k > Len(Walk) THEN <<>>
    ELSE IF k \in I THEN <<Walk[k]>> \o Pick(I, k + 1)
    ELSE Pick(I, k + 1)

\* the template renders to a document the pipeline would write
Emits(src) ==
    /\ ~src.broken
    /\ src.refs \subseteq ContextKeys
    /\ Strip(src.out) # SKIP
    /\ ~NotValid(validate_and_format_yaml(src.out))

NoCur ==
    [path |-> NoPath, formatted_content |-> <<>>, file_exists |-> FALSE,
     existing_none |-> TRUE, existing_content |-> <<>>,
     needs_confirmation |-> FALSE]

Ev(e, p) == [ev |-> e, path |-> p]

\* what the walk can find at an entry: the file's source and the file
\* that is at its output path before the run
Found(e) ==
    IF ~IsTemplate(e) THEN { [entry |-> e, src |-> NoSource, pre |-> NoFile] }
    ELSE { [entry |-> e, src |-> s, pre |-> f] : s \in Sources, f \in FileStates }

\* the output trees the model starts from keep the variety of files to the
\* paths that are written
Considered(x) ==
    \/ x.pre = NoFile
    \/ Emits(x.src)
    \/ x.pre = File(<<"k: w", "\n">>, "rw")

RECURSIVE Trees(_)
Trees(es) ==
    IF es = <<>> THEN { <<>> }
    ELSE { <<x>> \o t : x \in { y \in Found(Head(es)) : Considered(y) },
                        t \in Trees(Tail(es)) }

\* the file at path p before the run
Before(p) ==
    IF \E i \in 1..Len(tree) : p = output_file_path(RelPath(tree[i].entry))
       THEN tree[CHOOSE i \in 1..Len(tree) :
                    p = output_file_path(RelPath(tree[i].entry))].pre
       ELSE NoFile

\* the directories that exist before the run: the k8s app dir and the
\* ancestors of every file
DirsBefore ==
    UNION { Ancestors(p.dir) : p \in { q \in OutPaths : Before(q).exists } } \cup { <<>> }

Init ==
    /\ templatePathOk \in BOOLEAN
    /\ confirm \in {"always", "never", "if_exists"}
    /\ \E I \in SUBSET (1..Len(Walk)) :
         /\ Cardinality(I) <= MaxTemplates
         /\ templatePathOk \/ I = {}
         /\ tree \in Trees(Pick(I, 1))
    /\ fs = [p \in OutPaths |-> Before(p)]
    /\ dirs = DirsBefore
    /\ pc = "start"
    /\ rendered = <<>>
    /\ idx = 1
    /\ cur = NoCur
    /\ log = <<>>
    /\ exitCode = "none"

(***************************************************************************)
(* main (cli.py)                                                           *)
(***************************************************************************)
Exit(code) == pc' = "exited" /\ exitCode' = code

\* cli.py:189-193
CheckTemplatePath ==
    /\ pc = "start"
    /\ IF templatePathOk
          THEN /\ pc' = "render"
               /\ UNCHANGED <<log, exitCode>>
          ELSE /\ log' = Append(log, Ev("template_path_error", NoPath))
               /\ Exit("1")
    /\ UNCHANGED <<templatePathOk, tree, confirm, fs, dirs, rendered, idx, cur>>

\* cli.py:209-220 with fluxit.py:94-125
RenderTemplates ==
    /\ pc = "render"
    /\ LET r == render_templates(tree)
       IN  IF r.exit
              THEN /\ log' = Append(log, Ev(r.why, r.at))
                   /\ Exit("1")
                   /\ UNCHANGED rendered
              ELSE /\ rendered' = r.result
                   /\ pc' = "loop"
                   /\ UNCHANGED <<log, exitCode>>
    /\ UNCHANGED <<templatePathOk, tree, confirm, fs, dirs, idx, cur>>

\* the loop of main moves to the next entry
NextEntry == pc' = "loop" /\ idx' = idx + 1 /\ cur' = NoCur /\ UNCHANGED exitCode

\* a bug: the comparison is made only for a file that is not there
IsUnchanged_WhenAbsent(file_exists, rd, formatted_content) ==
    ~file_exists /\ ~rd.none /\ rd.text = formatted_content

\* a bug: the short cut for an unchanged file is missing
IsUnchanged_Never(file_exists, rd, formatted_content) == FALSE

\* output.py:51  file_exists and existing_content == formatted_content
IsUnchanged(file_exists, rd, formatted_content) ==
    file_exists /\ ~rd.none /\ rd.text = formatted_content

\* a bug: if_exists asks whether or not the file exists
needs_confirmation_IgnoresExists(policy, file_exists) ==
    policy = "always" \/ policy = "if_exists"

\* output.py:55
needs_confirmation(policy, file_exists) ==
    policy = "always" \/ (policy = "if_exists" /\ file_exists)

\* a bug: the diff is produced whenever the operator is asked, whether or
\* not there is prior content
ShowsDiff_WhenAsked(file_exists, rd) == TRUE

\* output.py:61  file_exists and existing_content
ShowsDiff(file_exists, rd) == file_exists /\ ~rd.none /\ rd.text # <<>>

\* output.py:100
WarnsOverwrite(policy, file_exists) == policy = "never" /\ file_exists

\* cli.py:222-237 with output.py:47-102: one entry of the loop, up to the
\* prompt or the write
ProcessPath ==
    /\ pc = "loop"
    /\ idx <= Len(rendered)
    /\ LET path == output_file_path(rendered[idx].key)
           v    == validate_and_format_yaml(rendered[idx].content)
           formatted_content == v.text
           file_exists == fs[path].exists
           rd   == read_file_content(fs[path])
           c    == [path |-> path, formatted_content |-> formatted_content,
                    file_exists |-> file_exists,
                    existing_none |-> rd.none, existing_content |-> rd.text,
                    needs_confirmation |-> needs_confirmation(confirm, file_exists)]
       IN  IF NotValid(v)
              THEN /\ log' = Append(log, Ev("skip_invalid", path))
                   /\ NextEntry
           ELSE IF rd.raised
              THEN /\ log' = Append(log, Ev("error_processing", path))
                   /\ NextEntry
           ELSE IF IsUnchanged(file_exists, rd, formatted_content)
              THEN /\ log' = Append(log, Ev("skipped_no_changes", path))
                   /\ NextEntry
           ELSE IF needs_confirmation(confirm, file_exists)
              THEN /\ log' = log \o
                        << IF ShowsDiff(file_exists, rd)
                              THEN Ev("diff", path) ELSE Ev("preview", path),
                           Ev("prompt", path) >>
                   /\ pc' = "prompt"
                   /\ cur' = c
                   /\ UNCHANGED <<idx, exitCode>>
           ELSE /\ log' = IF WarnsOverwrite(confirm, file_exists)
                             THEN Append(log, Ev("overwrite_warning", path))
                             ELSE log
                /\ pc' = "mkdir"
                /\ cur' = c
                /\ UNCHANGED <<idx, exitCode>>
    /\ UNCHANGED <<templatePathOk, tree, confirm, fs, dirs, rendered>>

\* a bug: the loop is moved to the next entry at the approval, while the
\* write of the approved path is still to come
Approve_MovesOn ==
    /\ pc = "prompt"
    /\ log' = Append(log, Ev("answered_yes", cur.path))
    /\ pc' = "mkdir"
    /\ idx' = idx + 1
    /\ UNCHANGED <<cur, exitCode>>
    /\ UNCHANGED <<templatePathOk, tree, confirm, fs, dirs, rendered>>

\* output.py:84-89: the operator approves
Approve ==
    /\ pc = "prompt"
    /\ log' = Append(log, Ev("answered_yes", cur.path))
    /\ pc' = "mkdir"
    /\ UNCHANGED <<idx, cur, exitCode>>
    /\ UNCHANGED <<templatePathOk, tree, confirm, fs, dirs, rendered>>

\* a bug: the return after the report is missing, and the declined path
\* falls through to the write
Decline_FallsThrough ==
    /\ pc = "prompt"
    /\ log' = log \o << Ev("answered_no", cur.path), Ev("skipped_declined", cur.path) >>
    /\ pc' = "mkdir"
    /\ UNCHANGED <<idx, cur, exitCode>>
    /\ UNCHANGED <<templatePathOk, tree, confirm, fs, dirs, rendered>>

\* output.py:91-93: the operator declines
Decline ==
    /\ pc = "prompt"
    /\ log' = log \o << Ev("answered_no", cur.path), Ev("skipped_declined", cur.path) >>
    /\ NextEntry
    /\ UNCHANGED <<templatePathOk, tree, confirm, fs, dirs, rendered>>

\* a bug: the abort is caught by the handler of cli.py:235 like any error
\* of the path, and the loop goes on
Interrupt_Swallowed ==
    /\ pc = "prompt"
    /\ log' = Append(log, Ev("interrupted", cur.path))
    /\ NextEntry
    /\ UNCHANGED <<templatePathOk, tree, confirm, fs, dirs, rendered>>

\* output.py:96-98: the operator interrupts the prompt; sys.exit(0) is no
\* Exception and passes cli.py:235
Interrupt ==
    /\ pc = "prompt"
    /\ log' = Append(log, Ev("interrupted", cur.path))
    /\ Exit("0")
    /\ UNCHANGED <<idx, cur>>
    /\ UNCHANGED <<templatePathOk, tree, confirm, fs, dirs, rendered>>

\* output.py:106 parent.mkdir(parents=True, exist_ok=True)
MkdirParents ==
    /\ pc = "mkdir"
    /\ dirs' = dirs \cup Ancestors(cur.path.dir)
    /\ pc' = "open"
    /\ UNCHANGED <<log, idx, cur, exitCode>>
    /\ UNCHANGED <<templatePathOk, tree, confirm, fs, rendered>>

\* a bug: the OSError is not caught and ends the run
MkdirFails_EndsRun ==
    /\ pc = "mkdir"
    /\ dirs' = dirs
    /\ log' = Append(log, Ev("error_saving", cur.path))
    /\ Exit("1")
    /\ UNCHANGED <<idx, cur>>
    /\ UNCHANGED <<templatePathOk, tree, confirm, fs, rendered>>

\* output.py:106 raises an OSError after making some of the ancestors; it
\* is caught at output.py:109
MkdirFails ==
    /\ pc = "mkdir"
    /\ \E n \in 0..(Len(cur.path.dir) - 1) :
          dirs' = dirs \cup Ancestors(SubSeq(cur.path.dir, 1, n))
    /\ cur.path.dir \notin dirs'
    /\ log' = Append(log, Ev("error_saving", cur.path))
    /\ NextEntry
    /\ UNCHANGED <<templatePathOk, tree, confirm, fs, rendered>>

\* fluxit.py:175 open(output_path, "w"): the file is created or truncated
OpenForWrite ==
    /\ pc = "open"
    /\ fs' = [fs EXCEPT ![cur.path] = File(<<>>, fs[cur.path].mode)]
    /\ pc' = "write"
    /\ UNCHANGED <<log, idx, cur, exitCode>>
    /\ UNCHANGED <<templatePathOk, tree, confirm, dirs, rendered>>

\* fluxit.py:176 f.write(content), as the data reaches the file piece by piece
WriteChunk ==
    /\ pc = "write"
    /\ Len(fs[cur.path].content) < Len(cur.formatted_content)
    /\ fs' = [fs EXCEPT ![cur.path].content =
                 SubSeq(cur.formatted_content, 1, Len(@) + 1)]
    /\ UNCHANGED <<pc, log, idx, cur, exitCode>>
    /\ UNCHANGED <<templatePathOk, tree, confirm, dirs, rendered>>

\* fluxit.py:177-178: open or write raises an IOError, write_template logs
\* it and returns, and confirm_and_save goes on to output.py:108
WriteFails ==
    /\ \/ pc = "open"
       \/ pc = "write" /\ Len(fs[cur.path].content) < Len(cur.formatted_content)
    /\ log' = log \o << Ev("write_failed", cur.path), Ev("saved", cur.path) >>
    /\ NextEntry
    /\ UNCHANGED <<templatePathOk, tree, confirm, fs, dirs, rendered>>

\* a bug: the file is closed and reported before all of the content has
\* reached it
CloseFile_ShortWrite ==
    /\ pc = "write"
    /\ log' = Append(log, Ev("saved", cur.path))
    /\ NextEntry
    /\ UNCHANGED <<templatePathOk, tree, confirm, fs, dirs, rendered>>

\* the with block of fluxit.py:175 closes the file; output.py:108
CloseFile ==
    /\ pc = "write"
    /\ fs[cur.path].content = cur.formatted_content
    /\ log' = Append(log, Ev("saved", cur.path))
    /\ NextEntry
    /\ UNCHANGED <<templatePathOk, tree, confirm, fs, dirs, rendered>>

\* the process is killed between open and close
CrashDuringWrite ==
    /\ pc = "write"
    /\ pc' = "crashed"
    /\ exitCode' = "killed"
    /\ UNCHANGED <<templatePathOk, tree, confirm, fs, dirs, rendered, idx, cur, log>>

\* cli.py:239
Finish ==
    /\ pc = "loop"
    /\ idx > Len(rendered)
    /\ log' = Append(log, Ev("finished", NoPath))
    /\ Exit("0")
    /\ UNCHANGED <<templatePathOk, tree, confirm, fs, dirs, rendered, idx, cur>>

Next ==
    \/ CheckTemplatePath
    \/ RenderTemplates
    \/ ProcessPath
    \/ Approve
    \/ Decline
    \/ Interrupt
    \/ MkdirParents
    \/ MkdirFails
    \/ OpenForWrite
    \/ WriteChunk
    \/ WriteFails
    \/ CloseFile
    \/ CrashDuringWrite
    \/ Finish

Spec == Init /\ [][Next]_vars

(***************************************************************************)
(* Properties                                                              *)
(***************************************************************************)
Logged(e, p) == \E i \in 1..Len(log) : log[i] = Ev(e, p)

\* main is about to hand the entry at idx to confirm_and_save
Called ==
    /\ pc = "loop"
    /\ idx <= Len(rendered)
    /\ ~NotValid(validate_and_format_yaml(rendered[idx].content))

CurPath == output_file_path(rendered[idx].key)

NewContent == validate_and_format_yaml(rendered[idx].content).text

\* the bytes of the file at CurPath are those of the new content
SameBytes == fs[CurPath].exists /\ fs[CurPath].content = NewContent

Readable(f) == f.exists /\ f.mode = "rw"

Decodable(f) == \A i \in 1..Len(f.content) : f.content[i] # "\\xff"

\* the four ways confirm_and_save leaves its decision
StepUnchanged ==
    /\ pc' = "loop" /\ idx' = idx + 1
    /\ log' = Append(log, Ev("skipped_no_changes", CurPath))
    /\ fs' = fs /\ dirs' = dirs /\ exitCode' = exitCode

StepNeedsReview ==
    /\ pc' = "prompt" /\ idx' = idx
    /\ Len(log') = Len(log) + 2
    /\ SubSeq(log', 1, Len(log)) = log
    /\ log'[Len(log) + 1].ev \in {"diff", "preview"}
    /\ log'[Len(log) + 2] = Ev("prompt", CurPath)
    /\ fs' = fs /\ dirs' = dirs

StepDirectWrite ==
    /\ pc' = "mkdir" /\ idx' = idx /\ cur'.path = CurPath
    /\ log' = log
    /\ fs' = fs /\ dirs' = dirs

StepDirectWriteWarned ==
    /\ pc' = "mkdir" /\ idx' = idx /\ cur'.path = CurPath
    /\ log' = Append(log, Ev("overwrite_warning", CurPath))
    /\ fs' = fs /\ dirs' = dirs

\* C1, as stated: under every policy, when confirm_and_save is called for
\* a path whose file exists and holds the new content byte for byte, there
\* is no prompt, no diff and no write, the file stays as it was, and the
\* only effect is the "skipped, no changes" report.
C1_SkipWhenUnchanged_AsStated ==
    [][ (Called /\ SameBytes) => StepUnchanged ]_vars

\* C1, amended: the same, for a file that exists, can be read, and holds
\* the new content byte for byte.
C1_SkipWhenUnchanged ==
    [][ (Called /\ SameBytes /\ Readable(fs[CurPath])) => StepUnchanged ]_vars

\* an unchanged file was skipped although the policy is to ask always
C1_Witness ==
    /\ confirm = "always"
    /\ \E p \in OutPaths :
          /\ Logged("skipped_no_changes", p)
          /\ fs[p] = File(<<"k: v", "\n">>, "rw")
          /\ ~Logged("prompt", p)

\* reading the file raises an error that is no IOError
ReadRaises(f) == Readable(f) /\ ~Decodable(f)

\* the entry is abandoned with an error report
StepError ==
    /\ pc' = "loop" /\ idx' = idx + 1
    /\ log' = Append(log, Ev("error_processing", CurPath))
    /\ fs' = fs /\ dirs' = dirs /\ exitCode' = exitCode

\* the rows of the policy matrix, for a given reading of "identical" and
\* "differs"
Matrix(exists, identical, differs) ==
    /\ identical => StepUnchanged
    /\ (~exists /\ confirm = "always") => StepNeedsReview
    /\ (~exists /\ confirm \in {"never", "if_exists"}) => StepDirectWrite
    /\ (differs /\ confirm \in {"always", "if_exists"}) => StepNeedsReview
    /\ (differs /\ confirm = "never") => StepDirectWriteWarned
    /\ (pc' = "prompt") <=>
          /\ ~exists \/ differs
          /\ confirm = "always" \/ (confirm = "if_exists" /\ exists)

\* C2, as stated: for every combination of (file exists?, content
\* differs?, policy) confirm_and_save enters the state the matrix gives,
\* and it prompts iff the content is not unchanged and the policy is
\* always, or if_exists with an existing file.
C2_PolicyMatrix_AsStated ==
    [][ Called => Matrix(fs[CurPath].exists,
                         SameBytes,
                         fs[CurPath].exists /\ ~SameBytes) ]_vars

\* What the code does instead: the matrix holds where "identical" is a file
\* that can be read and holds the new content, and "differs" is any other
\* existing file whose reading does not raise (a file that cannot be opened
\* for reading counts as differing); a file whose reading raises is
\* abandoned with an error report, without prompt, warning or write.
PolicyMatrix_WhenReadDoesNotRaise ==
    [][ Called =>
          /\ Matrix(fs[CurPath].exists,
                    SameBytes /\ Readable(fs[CurPath]),
                    /\ fs[CurPath].exists
                    /\ ~(SameBytes /\ Readable(fs[CurPath]))
                    /\ ~ReadRaises(fs[CurPath]))
          /\ ReadRaises(fs[CurPath]) => StepError ]_vars

\* policy never has met an existing, different file: it goes to the write
\* with the warning and without a prompt
OverwriteWarned ==
    /\ confirm = "never"
    /\ pc = "mkdir"
    /\ Before(cur.path) = File(<<"k: w", "\n">>, "rw")
    /\ Logged("overwrite_warning", cur.path)
    /\ ~Logged("prompt", cur.path)

\* the template at position i of the walk cannot be rendered: it does not
\* compile, or it references a variable the context does not have
FailsToRender(i) ==
    /\ IsTemplate(tree[i].entry)
    /\ tree[i].src.broken \/ ~(tree[i].src.refs \subseteq ContextKeys)

Fatal == ~templatePathOk \/ \E i \in 1..Len(tree) : FailsToRender(i)

Untouched == fs = [p \in OutPaths |-> Before(p)] /\ dirs = DirsBefore

\* C3: when a discovered template references a variable missing from the
\* context or fails to render, or the template path is no directory, the
\* run never gets a result from render_templates, ends only with exit
\* status 1, creates or modifies no file or directory, and never prompts.
C3_FatalPropagation ==
    Fatal =>
        /\ pc \in {"start", "render", "exited"}
        /\ pc = "exited" => exitCode = "1"
        /\ rendered = <<>>
        /\ Untouched
        /\ \A i \in 1..Len(log) :
              log[i].ev \in {"template_path_error", "render_failed", "undefined_var"}

\* the run has ended with status 1 on the second template; the first one
\* rendered to a document that differs from the file at its output path
C3_Witness ==
    /\ pc = "exited" /\ exitCode = "1"
    /\ Len(tree) = 2
    /\ Emits(tree[1].src)
    /\ tree[1].pre = File(<<"k: w", "\n">>, "rw")
    /\ ~(tree[2].src.refs \subseteq ContextKeys)
    /\ \E i \in 1..Len(log) : log[i].ev = "undefined_var"

WasInterrupted(l) == \E i \in 1..Len(l) : l[i].ev = "interrupted"

\* C4: an interrupt during the prompt of a path ends the whole run at once
\* with exit status 0: the step writes nothing and leaves the interrupted
\* path's file as it was before the run, and no step of the run follows it
\* (no later path is canonicalized, prompted for or written, the handler of
\* the loop does not go on); what earlier paths wrote stays.
C4_InterruptAbort ==
    [][ /\ ~WasInterrupted(log)
        /\ WasInterrupted(log') =>
              /\ pc = "prompt"
              /\ log' = Append(log, Ev("interrupted", cur.path))
              /\ pc' = "exited" /\ exitCode' = "0"
              /\ fs' = fs /\ dirs' = dirs /\ idx' = idx
              /\ fs'[cur.path] = Before(cur.path) ]_vars

\* the prompt of the first of two paths was interrupted: the run has ended
\* with status 0 and the second path, whose file differs, was not touched
C4_Witness ==
    /\ pc = "exited" /\ exitCode = "0"
    /\ Len(rendered) = 2 /\ idx = 1
    /\ Logged("interrupted", output_file_path(rendered[1].key))
    /\ Before(output_file_path(rendered[2].key)) = File(<<"k: w", "\n">>, "rw")
    /\ ~NotValid(validate_and_format_yaml(rendered[2].content))

\* the reports of a failure that is confined to one path
FailureReports == {"skip_invalid", "error_processing", "error_saving", "write_failed"}

\* the reports that close the handling of a path
FinalReports ==
    {"skip_invalid", "error_processing", "skipped_no_changes",
     "skipped_declined", "saved", "error_saving"}

\* the step reports a failure of the current path
ReportsFailure ==
    \E i \in (Len(log) + 1)..Len(log') : log'[i].ev \in FailureReports

\* every entry of the renderer's result has been handled to its end
AllHandled ==
    /\ idx = Len(rendered) + 1
    /\ \A j \in 1..Len(rendered) :
          \E i \in 1..Len(log) :
             /\ log[i].path = output_file_path(rendered[j].key)
             /\ log[i].ev \in FinalReports

\* C5: after rendering, a failure of one path (mkdir or write fails, the
\* document does not parse, reading the existing file raises) is reported,
\* only that path is abandoned and the loop moves to the next entry without
\* touching another path's file; the run ends only by the renderer's fatal
\* abort (status 1), by the operator's interrupt (status 0), or, with status
\* 0, after every entry of the result has been handled.
C5_FailureIsolation ==
    [][ /\ ReportsFailure =>
              /\ pc' = "loop" /\ idx' = idx + 1 /\ exitCode' = "none"
              /\ \A q \in OutPaths :
                    q # output_file_path(rendered[idx].key) => fs'[q] = fs[q]
        /\ pc' = "exited" =>
              \/ Fatal /\ exitCode' = "1" /\ rendered' = <<>>
              \/ WasInterrupted(log') /\ exitCode' = "0"
              \/ exitCode' = "0" /\ AllHandled' ]_vars

\* the directory of the first path could not be made, the second path was
\* still written, and the run has ended with status 0
C5_Witness ==
    /\ pc = "exited" /\ exitCode = "0"
    /\ Len(rendered) = 2
    /\ Logged("error_saving", output_file_path(rendered[1].key))
    /\ Logged("saved", output_file_path(rendered[2].key))
    /\ ~Logged("write_failed", output_file_path(rendered[2].key))

\* C6: when the write replaces an existing file, the path holds at every
\* instant (for a reader, or after a crash in the middle of the write)
\* either the complete old content or the complete new content.
C6_AtomicReplace ==
    \A j \in 1..Len(rendered) :
        LET p == output_file_path(rendered[j].key)
        IN  Before(p).exists =>
               fs[p].content \in
                  { Before(p).content,
                    validate_and_format_yaml(rendered[j].content).text }

\* the text does not parse, or every document parsed from it is null or
\* empty
Unparsed(t) ==
    \/ load_all(t).raised
    \/ \A i \in 1..Len(load_all(t).docs) :
          load_all(t).docs[i] \in {"None", "empty_map"}

\* C7: for a rendered text that fails to parse, or whose documents are all
\* null or empty, validate_and_format_yaml returns the unparsed flag with
\* the text exactly as given, and main logs a warning and skips the path:
\* no prompt, no write, the files stay as they are, and the loop moves to
\* the next entry.
C7_UnparsedSkipped ==
    [][ (pc = "loop" /\ idx <= Len(rendered) /\ Unparsed(rendered[idx].content)) =>
           /\ validate_and_format_yaml(rendered[idx].content).parsed_none
           /\ validate_and_format_yaml(rendered[idx].content).text = rendered[idx].content
           /\ log' = Append(log, Ev("skip_invalid", CurPath))
           /\ fs' = fs /\ dirs' = dirs
           /\ pc' = "loop" /\ idx' = idx + 1 /\ exitCode' = exitCode ]_vars

\* a template that rendered to a bare separator was skipped under policy
\* never, and the different file at its output path is still there
C7_Witness ==
    /\ confirm = "never"
    /\ \E j \in 1..Len(rendered) :
          /\ rendered[j].content = <<"---", "\n">>
          /\ Logged("skip_invalid", output_file_path(rendered[j].key))
          /\ Before(output_file_path(rendered[j].key)) = File(<<"k: w", "\n">>, "rw")
          /\ fs[output_file_path(rendered[j].key)] = File(<<"k: w", "\n">>, "rw")

\* the template at position i of the walk renders to the skip token
Suppressed(i) ==
    IsTemplate(tree[i].entry) /\ Strip(tree[i].src.out) = SKIP

\* the relative path with the ".j2" at its end taken off, below the root
Stripped(rel) ==
    [dir |-> output_base_dir \o rel.dir,
     name |-> SubSeq(rel.name, 1, Len(rel.name) - 1)]

\* the renderer's result is the discovered template files, less the
\* suppressed ones, and a suppressed template's path is left alone
SentinelSuppression ==
    /\ { rendered[j].key : j \in 1..Len(rendered) } =
          { RelPath(tree[i].entry) :
               i \in { k \in 1..Len(tree) : IsTemplate(tree[k].entry) /\ ~Suppressed(k) } }
    /\ \A j, k \in 1..Len(rendered) : rendered[j].key = rendered[k].key => j = k
    /\ \A i \in 1..Len(tree) :
          Suppressed(i) =>
             \A q \in { Stripped(RelPath(tree[i].entry)),
                        output_file_path(RelPath(tree[i].entry)) } :
                /\ q \in OutPaths => fs[q] = Before(q)
                /\ \A n \in 1..Len(log) : log[n].path # q

\* C8: once rendering has returned, the result has an entry for every
\* discovered template file except exactly those that render to __SKIP__
\* between blanks; nothing is created, modified or prompted for at a
\* suppressed template's path; and the output path of each entry is the
\* template's relative path with the .j2 extension stripped, directories
\* kept.
C8_SentinelAndPaths ==
    (pc \notin {"start", "render"} /\ ~Fatal) =>
        /\ SentinelSuppression
        /\ \A j \in 1..Len(rendered) :
              output_file_path(rendered[j].key) = Stripped(rendered[j].key)

\* What the code does: the same, for every template whose name is more
\* than the bare extension ".j2".
SentinelAndPaths_NamedTemplates ==
    (pc \notin {"start", "render"} /\ ~Fatal) =>
        /\ SentinelSuppression
        /\ \A j \in 1..Len(rendered) :
              rendered[j].key.name # <<"", "j2">> =>
                 output_file_path(rendered[j].key) = Stripped(rendered[j].key)

\* the operator answers no in this step
Declines ==
    \E i \in (Len(log) + 1)..Len(log') : log'[i].ev = "answered_no"

\* C10: when the operator declines the prompt of a path, the skip is
\* reported, no directory is made and nothing is written, the file at the
\* path is as it was before the run, and the loop moves to the next entry;
\* a path that was prompted for gets a directory or a write only after the
\* operator has approved it, and never after a decline.
C10_Decline ==
    [][ /\ Declines =>
              /\ pc = "prompt"
              /\ log' = log \o << Ev("answered_no", cur.path),
                                  Ev("skipped_declined", cur.path) >>
              /\ fs' = fs /\ dirs' = dirs
              /\ fs'[cur.path] = Before(cur.path)
              /\ pc' = "loop" /\ idx' = idx + 1 /\ exitCode' = "none"
        /\ ((fs' # fs \/ dirs' # dirs) /\ Logged("prompt", cur.path)) =>
              /\ Logged("answered_yes", cur.path)
              /\ ~Logged("answered_no", cur.path)
        /\ \A p \in OutPaths :
              Logged("skipped_declined", p) => fs'[p] = Before(p) ]_vars

\* the overwrite of the first of two paths was declined: its file is the
\* old one, and the second path was approved and written
C10_Witness ==
    /\ pc = "exited" /\ exitCode = "0"
    /\ Len(rendered) = 2
    /\ Logged("skipped_declined", output_file_path(rendered[1].key))
    /\ Before(output_file_path(rendered[1].key)) = File(<<"k: w", "\n">>, "rw")
    /\ fs[output_file_path(rendered[1].key)] = File(<<"k: w", "\n">>, "rw")
    /\ Logged("answered_yes", output_file_path(rendered[2].key))
    /\ fs[output_file_path(rendered[2].key)] = File(<<"k: v", "\n">>, "rw")

\* the presentation that precedes the prompt of this step
Shown == log'[Len(log) + 1]

\* the step ends at the prompt of the current path
EntersReview == Called /\ pc' = "prompt"

\* C11, as stated: in NeedsReview the operator is shown a diff of the prior
\* content against the new content whenever a file exists at the output
\* path, and the full new content as the preview only when no file exists;
\* generate_diff is never invoked when there is no prior file.
C11_ReviewPresentation_AsStated ==
    [][ EntersReview =>
           /\ fs[CurPath].exists  => Shown = Ev("diff", CurPath)
           /\ ~fs[CurPath].exists => Shown = Ev("preview", CurPath) ]_vars

\* C11, amended: in NeedsReview the operator is shown a diff exactly when
\* a file exists at the output path, its content could be read and is not
\* empty; otherwise (no file, a file that cannot be read, an empty file) the
\* full new content is shown as the preview; generate_diff is never invoked
\* when there is no prior file.
C11_ReviewPresentation ==
    [][ EntersReview =>
           LET f == fs[CurPath]
               hasContent == Readable(f) /\ f.content # <<>>
           IN  /\ hasContent  => Shown = Ev("diff", CurPath)
               /\ ~hasContent => Shown = Ev("preview", CurPath)
               /\ ~f.exists   => Shown # Ev("diff", CurPath) ]_vars

\* the first path had a different manifest and got a diff, the second is an
\* empty file and is at its prompt after the preview
C11_Witness ==
    /\ pc = "prompt"
    /\ Len(rendered) = 2 /\ idx = 2
    /\ Before(output_file_path(rendered[1].key)) = File(<<"k: w", "\n">>, "rw")
    /\ Logged("diff", output_file_path(rendered[1].key))
    /\ Before(output_file_path(rendered[2].key)) = File(<<>>, "rw")
    /\ Logged("preview", output_file_path(rendered[2].key))
    /\ ~Logged("diff", output_file_path(rendered[2].key))

\* the path of entry j of the renderer's result, and its canonical text
PathOf(j) == output_file_path(rendered[j].key)

CanonOf(j) == validate_and_format_yaml(rendered[j].content).text

\* the write of entry j went through without an I/O failure
Written(j) == Logged("saved", PathOf(j)) /\ ~Logged("write_failed", PathOf(j))

\* a step that completes the write of the current path without a failure
\* leaves the file with exactly the new canonical content, and the making
\* of the directories leaves all parents of the path in place, those that
\* are there already being no error, and changes no file
WriteSteps ==
    [][ /\ (pc = "mkdir" /\ pc' = "open") =>
              /\ dirs' = dirs \cup Ancestors(cur.path.dir)
              /\ fs' = fs
        /\ (pc = "write" /\ pc' = "loop" /\ ~ReportsFailure) =>
              /\ fs'[cur.path] = File(cur.formatted_content, fs[cur.path].mode)
              /\ cur.formatted_content = NewContent
              /\ cur.path = CurPath
              /\ log' = Append(log, Ev("saved", CurPath)) ]_vars

\* C12: once the write of a path (after an approval, or direct) has gone
\* through without an I/O failure, all parent directories of the path exist
\* and the file holds exactly the new canonical content, with nothing of the
\* old content left, from then on to the end of the run.
C12_WriteEffect ==
    \A j \in 1..Len(rendered) :
        Written(j) =>
           /\ fs[PathOf(j)].exists
           /\ fs[PathOf(j)].content = CanonOf(j)
           /\ Ancestors(PathOf(j).dir) \subseteq dirs

\* two paths were written under policy never: the first replaced another
\* manifest in a directory that was there, the second is a new file in a
\* directory that was missing
C12_Witness ==
    /\ pc = "exited" /\ exitCode = "0" /\ confirm = "never"
    /\ Len(rendered) = 2
    /\ Written(1) /\ Written(2)
    /\ Before(PathOf(1)) = File(<<"k: w", "\n">>, "rw")
    /\ fs[PathOf(1)] = File(<<"k: v", "\n">>, "rw")
    /\ output_base_dir \in DirsBefore
    /\ ~Before(PathOf(2)).exists
    /\ PathOf(2).dir \notin DirsBefore
    /\ PathOf(2).dir \in dirs
    /\ fs[PathOf(2)] = File(<<"k: v", "\n">>, "rw")

\* the reports that belong to the handling of one entry of the result
PathReports ==
    {"skip_invalid", "error_processing", "skipped_no_changes", "diff",
     "preview", "prompt", "answered_yes", "answered_no", "skipped_declined",
     "interrupted", "overwrite_warning", "error_saving", "write_failed", "saved"}

\* the reports that settle what happens to a path
Decisions ==
    {"skip_invalid", "error_processing", "skipped_no_changes",
     "skipped_declined", "interrupted", "error_saving", "saved"}

IsPathReport(e) == e.ev \in PathReports

IsDecision(e) == e.ev \in Decisions

IsPrompt(e) == e.ev = "prompt"

RECURSIVE Runs(_)
\* the paths the reports of l are about, in order, a run of reports about
\* one path counted once
Runs(l) ==
    IF l = <<>> THEN <<>>
    ELSE IF Len(l) > 1 /\ l[2].path = l[1].path THEN Runs(Tail(l))
    ELSE <<l[1].path>> \o Runs(Tail(l))

\* the paths of the first n entries of the renderer's result, in its order
FirstPaths(n) == [j \in 1..n |-> PathOf(j)]

\* C13: the entries of the renderer's result are handled one at a time and
\* in the renderer's order: the reports of the run, grouped by path, are
\* about the first entries of the result in its order with the reports of
\* one entry all before those of the next; an entry the loop has left has
\* been settled; each path is settled at most once and prompted for at most
\* once; a prompt is answered (or is the one the run waits at) before
\* anything else happens, so that at most one prompt is pending; and what
\* confirm_and_save works on is the entry the loop is at.
C13_Sequential ==
    LET P == SelectSeq(log, IsPathReport)
        D == SelectSeq(log, IsDecision)
        Q == SelectSeq(log, IsPrompt)
    IN  /\ Len(Runs(P)) \in {idx - 1, idx} \cap (0..Len(rendered))
        /\ Runs(P) = FirstPaths(Len(Runs(P)))
        /\ pc = "loop" => Len(Runs(P)) = idx - 1
        /\ Len(D) = IF WasInterrupted(log) THEN idx ELSE idx - 1
        /\ [i \in 1..Len(D) |-> D[i].path] = FirstPaths(Len(D))
        /\ Cardinality({ Q[i].path : i \in 1..Len(Q) }) = Len(Q)
        /\ \A i \in 1..Len(log) :
              log[i].ev = "prompt" =>
                 IF i = Len(log)
                    THEN pc = "prompt" /\ cur.path = log[i].path
                    ELSE /\ log[i + 1].ev \in {"answered_yes", "answered_no", "interrupted"}
                         /\ log[i + 1].path = log[i].path
        /\ pc \in {"prompt", "mkdir", "open", "write", "crashed"} =>
              /\ idx <= Len(rendered)
              /\ cur.path = PathOf(idx)
        /\ pc = "prompt" => log[Len(log)] = Ev("prompt", cur.path)

\* both of two paths were prompted for, approved and written, the first to
\* its end before the second was looked at
C13_Witness ==
    /\ pc = "exited" /\ exitCode = "0" /\ confirm = "always"
    /\ Len(rendered) = 2
    /\ \E i, k \in 1..Len(log) :
          /\ i < k
          /\ log[i] = Ev("saved", PathOf(1))
          /\ log[k] = Ev("prompt", PathOf(2))
    /\ Logged("answered_yes", PathOf(1))
    /\ Logged("saved", PathOf(2))

\* C14: a path is reported as saved only if its write succeeded: whenever
\* "Saved" has been logged for a path, the file at the path holds exactly the
\* new content and no write failure was reported for it; a write failure
\* gets an error report and no "Saved" report, so that each path has one
\* final outcome among saved, skipped-unchanged, skipped-declined and failed.
C14_TruthfulReport ==
    \A j \in 1..Len(rendered) :
        /\ Logged("saved", PathOf(j)) =>
              /\ fs[PathOf(j)].exists
              /\ fs[PathOf(j)].content = CanonOf(j)
        /\ ~(Logged("saved", PathOf(j)) /\ Logged("write_failed", PathOf(j)))

(***************************************************************************)
(* A second run of main over the tree the first run left                   *)
(***************************************************************************)
\* every entry of the result was written, and the run went to its end
CleanRun ==
    /\ pc = "exited" /\ exitCode = "0"
    /\ log # <<>> /\ log[Len(log)] = Ev("finished", NoPath)
    /\ \A j \in 1..Len(rendered) : Written(j)

\* this is the second run
SecondRun == log # <<>> /\ log[1] = Ev("rerun", NoPath)

\* cli.py:166-239 again: after a run in which every rendered path was
\* written, main is started once more with the same template directory,
\* context and output root, under any policy, on the files as they are
Rerun ==
    /\ CleanRun
    /\ ~SecondRun
    /\ confirm' \in {"always", "never", "if_exists"}
    /\ pc' = "start"
    /\ rendered' = <<>>
    /\ idx' = 1
    /\ cur' = NoCur
    /\ log' = << Ev("rerun", NoPath) >>
    /\ exitCode' = "none"
    /\ UNCHANGED <<templatePathOk, tree, fs, dirs>>

NextRerun == Next \/ Rerun

SpecRerun == Init /\ [][NextRerun]_vars

\* no step of the run prompts, warns, makes a directory or writes, and
\* every call of confirm_and_save ends in the "skipped, no changes" report
Converged ==
    /\ fs' = fs /\ dirs' = dirs
    /\ pc' \notin {"prompt", "mkdir", "open", "write"}
    /\ \A i \in 1..Len(log') :
          log'[i].ev \notin {"prompt", "diff", "preview", "overwrite_warning", "saved"}
    /\ Called => StepUnchanged
    /\ (pc = "loop" /\ idx <= Len(rendered)) => Called

\* the paths the templates of the tree are written to
WrittenPaths ==
    { output_file_path(RelPath(tree[i].entry)) :
         i \in { k \in 1..Len(tree) :
                    IsTemplate(tree[k].entry) /\ Emits(tree[k].src) } }

\* C15, as stated: after a run that completed with every rendered path
\* written, a second run with the same templates, context and output root
\* takes the Unchanged branch for every path under every policy: no prompt,
\* no overwrite warning, no write.
C15_Convergence_AsStated ==
    [][ SecondRun => Converged ]_vars

\* C15, amended: the same, when the process can read back every file it
\* has written.
C15_Convergence ==
    [][ (SecondRun /\ \A p \in WrittenPaths : Readable(fs[p])) => Converged ]_vars

\* the second run, under policy always, has ended after skipping both
\* paths as unchanged; before the first run one of them held another
\* manifest and the other did not exist
C15_Witness ==
    /\ SecondRun
    /\ pc = "exited" /\ exitCode = "0" /\ confirm = "always"
    /\ Len(rendered) = 2
    /\ Before(PathOf(1)) = File(<<"k: w", "\n">>, "rw")
    /\ ~Before(PathOf(2)).exists
    /\ Logged("skipped_no_changes", PathOf(1))
    /\ Logged("skipped_no_changes", PathOf(2))
    /\ fs[PathOf(1)] = File(<<"k: v", "\n">>, "rw")
    /\ fs[PathOf(2)] = File(<<"k: v", "\n">>, "rw")

\* the paths of the claim: the relative path, less its ".j2", of every
\* template that renders to a document that is written
StrippedPaths ==
    { Stripped(RelPath(tree[i].entry)) :
         i \in { k \in 1..Len(tree) :
                    IsTemplate(tree[k].entry) /\ Emits(tree[k].src) } }

\* a step of the run changes files and directories only within allowed:
\* the templates stay as they are, a file that changes is the file of the
\* path being handled and is in allowed, every other file is as it was
\* before the run, and the directories that are made are parents of paths
\* in allowed
Frame(allowed) ==
    /\ tree' = tree /\ templatePathOk' = templatePathOk
    /\ \A q \in OutPaths :
          /\ fs'[q] # fs[q] => q \in allowed /\ q = cur.path /\ q = CurPath
          /\ q \notin allowed => fs'[q] = Before(q)
    /\ dirs \subseteq dirs'
    /\ dirs' \subseteq DirsBefore \cup UNION { Ancestors(p.dir) : p \in allowed }

\* C16: a run creates or modifies files only at the output paths
\* <root>/<relative path minus .j2> of the templates that rendered to
\* parseable content other than the sentinel, and makes only their missing
\* parent directories; handling one path never changes the file of another
\* path; every other file, the templates included, is unchanged at the end
\* of the run, whatever the policy and the operator's answers.
C16_Frame ==
    [][ Frame(StrippedPaths) ]_vars

\* What the code does: the same, for the paths cli.py:224-225 computes,
\* which for a template named ".j2" is <root>/.j2.
Frame_ComputedPaths ==
    [][ Frame(WrittenPaths) ]_vars

\* of two templates the first rendered to a comment only and the second to
\* a manifest: at the end of the run the file at the first one's path is
\* still the other manifest it was, and the second was written
FrameKept ==
    /\ pc = "exited" /\ exitCode = "0" /\ confirm = "never"
    /\ Len(tree) = 2 /\ Len(rendered) = 2
    /\ rendered[1].content = <<"# c", "\n">>
    /\ fs[PathOf(1)] = File(<<"k: w", "\n">>, "rw")
    /\ Before(PathOf(2)) = File(<<"k: w", "\n">>, "rw")
    /\ fs[PathOf(2)] = File(<<"k: v", "\n">>, "rw")

=============================================================================
